---- MODULE Spec2Model ----
(***************************************************************************)
(* Model of the phantom-native runtime: the hook-style state engine        *)
(* (virtual-modules), the Execution Host (runtime worker, worker.ts with   *)
(* worker-bridge) and the main-thread code executor (code-executor with    *)
(* PhonePreview), the layout engine (fallback-layout under                 *)
(* SimpleRenderNode), the hit-tester (hit-testing) and the tree builders    *)
(* (virtual-modules).                                                      *)
(*                                                                         *)
(* Spec      the Execution Host: one action per message handled by         *)
(*           self.onmessage, plus the two continuations of the awaited     *)
(*           initYoga() call.                                              *)
(* ExecSpec  the main-thread executor: executeCode and the canvas click    *)
(*           whose setter re-executes the last code through reExecute.     *)
(* LayoutSpec  the layout engine: root.calculateLayout on a tree of styled *)
(*           nodes, called any number of times.                            *)
(* HitSpec   the hit-tester: hitTest on a serialized tree and a point.     *)
(* BuildSpec the tree builders: buildRenderTree on a virtual element.      *)
(***************************************************************************)
EXTENDS Integers, Sequences, FiniteSets, TLC

VARIABLES
    \* ---- virtual-modules: the state engine
    stateIndex,           \* let stateIndex = 0
    stateValues,          \* const stateValues: any[] = []
    stateUpdateCallback,  \* let stateUpdateCallback = null
    \* ---- worker.ts / worker-bridge / yoga-layout
    initialized,          \* let initialized = false
    currentRenderTree,    \* let currentRenderTree = null
    eventHandlers,        \* let eventHandlers = new Map()
    nodeIdCounter,        \* let nodeIdCounter = 0
    yogaInstance,         \* let yogaInstance = null (TRUE once loaded)
    modulesReady,         \* self.__REACT__ / self.__REACT_NATIVE__ are set
    pendingInits,         \* initWorker calls suspended at `await initYoga()`
    \* ---- code-executor / PhonePreview (main thread)
    lastExecutedCode,     \* let lastExecutedCode = ''
    lastRenderCallback,   \* let lastRenderCallback = null
    currentScene,         \* PhonePreview's currentScene
    \* ---- observation of the run (history, no influence on the program)
    out,                  \* messages posted by the handler that ran last
    lastOp,               \* the handler that ran last and what it did
    acq,                  \* the state-cell acquisitions of the latest pass
    everStored,           \* ordinals at which a value has been stored
    lastSet,              \* per ordinal, the last setter application
    delivered,            \* sizes of the trees delivered so far, in order
    hist,                 \* counters of messages handled and emitted
    \* ---- simple-render-node / fallback-layout (a SimpleRenderNode tree)
    layoutRoot,           \* the root SimpleRenderNode: style, children, layout
    layoutArgs,           \* arguments of the latest root.calculateLayout call
    layoutPrev,           \* layoutRoot and layoutArgs before that call
    \* ---- hit-testing (a SerializableNode tree and a tap)
    hitRoot,              \* the tree handed to hitTest
    hitPoint,             \* the point handed to hitTest
    hitResult,            \* what the latest hitTest call returned
    \* ---- virtual-modules (the tree builders)
    virtualElement,       \* the virtual element handed to buildRenderTree
    built                 \* which builder ran last and the node it returned

vars == <<stateIndex, stateValues, stateUpdateCallback, initialized,
          currentRenderTree, eventHandlers, nodeIdCounter, yogaInstance,
          modulesReady, pendingInits, lastExecutedCode, lastRenderCallback,
          currentScene, out, lastOp, acq, everStored, lastSet, delivered, hist,
          layoutRoot, layoutArgs, layoutPrev, hitRoot, hitPoint, hitResult,
          virtualElement, built>>

engineVars == <<stateIndex, stateValues, stateUpdateCallback>>
workerVars == <<initialized, currentRenderTree, eventHandlers, nodeIdCounter,
                yogaInstance, modulesReady, pendingInits>>
previewVars == <<lastExecutedCode, lastRenderCallback, currentScene>>
layoutVars == <<layoutRoot, layoutArgs, layoutPrev>>
hitVars == <<hitRoot, hitPoint, hitResult>>
builderVars == <<virtualElement, built>>
rendererVars == <<layoutVars, hitVars, builderVars>>
hostVars == <<engineVars, workerVars, previewVars, out, lastOp, acq,
              everStored, lastSet, delivered, hist>>

(***************************************************************************)
(* Bounds                                                                  *)
(***************************************************************************)
MaxInits == 2        \* INIT_WORKER messages handled in one run
MaxExecs == 2        \* EXECUTE_CODE messages (executeCode calls) in one run
MaxDispatches == 1   \* DISPATCH_EVENT messages (canvas clicks) in one run
MaxCells == 4        \* ordinals 0..MaxCells-1 of stateValues are modelled

(***************************************************************************)
(* Values held by state cells.  Undefined is JavaScript's undefined, which *)
(* is also what an array slot that was never written reads as.             *)
(***************************************************************************)
Undefined == "undefined"
Values == {"a", "b", Undefined}
Cells == 0 .. (MaxCells - 1)

\* The one updater function user code passes to a setter:
\* prev => prev === 'a' ? 'b' : 'a'
Toggle(prev) == IF prev = "a" THEN "b" ELSE "a"

(***************************************************************************)
(* Press callbacks of user code.  A callback applies the setter returned   *)
(* by the hook-th useState call of the component, either with a literal or *)
(* with the updater.                                                       *)
(***************************************************************************)
NoPress == [kind |-> "none", hook |-> 0, value |-> Undefined]
Lit(h, v) == [kind |-> "literal", hook |-> h, value |-> v]
Upd(h) == [kind |-> "updater", hook |-> h, value |-> Undefined]

(***************************************************************************)
(* User programs (the source text of an EXECUTE_CODE message).             *)
(*   transform  what transformCode returns for it                          *)
(*   load       what eval(wrapCode(code)) yields                           *)
(*   hooks      the initial values of the root component's useState calls  *)
(*   body       how the root component ends after its useState calls       *)
(*   kids       the onPress prop of each View child of the root element    *)
(*   rootPress  the onPress prop of the root element                       *)
(*   nested     function-type child elements: the initial values of the    *)
(*              useState calls of each                                     *)
(***************************************************************************)
Prog(t, l, h, b, k, r, n) ==
    [transform |-> t, load |-> l, hooks |-> h, body |-> b, kids |-> k,
     rootPress |-> r, nested |-> n]

SyntaxError == Prog("error", "function", << >>, "returns", << >>, NoPress, << >>)
BadRequire == Prog("ok", "unknownModule", << >>, "returns", << >>, NoPress, << >>)
NoExport == Prog("ok", "notFunction", << >>, "returns", << >>, NoPress, << >>)
Thrower == Prog("ok", "function", <<"a">>, "throwsError", << >>, NoPress, << >>)
NullThrower == Prog("ok", "function", << >>, "throwsNull", << >>, NoPress, << >>)
Blank == Prog("ok", "function", <<"b">>, "returnsNull", << >>, NoPress, << >>)
Static == Prog("ok", "function", << >>, "returns", << >>, NoPress, << >>)
Counter ==
    Prog("ok", "function", <<"a">>, "returns",
         <<Lit(1, "b"), Lit(1, Undefined)>>, NoPress, << >>)
Toggler ==
    Prog("ok", "function", <<Undefined, "b">>, "returns",
         <<Upd(2)>>, Lit(1, "a"), << >>)
Nested ==
    Prog("ok", "function", <<"a">>, "returns",
         <<Lit(1, "b")>>, NoPress, << <<"b">> >>)

Programs ==
    {SyntaxError, BadRequire, NoExport, Thrower, NullThrower, Blank, Static,
     Counter, Toggler, Nested}

IsValid(p) ==
    /\ p.transform = "ok"
    /\ p.load = "function"
    /\ p.body = "returns"

(***************************************************************************)
(* Messages posted to the main thread (WorkerToMainMessage).               *)
(***************************************************************************)
Log(level, text) == [type |-> "LOG", level |-> level, text |-> text]
WorkerReady == [type |-> "WORKER_READY", level |-> "", text |-> ""]
RenderTree == [type |-> "RENDER_TREE", level |-> "", text |-> ""]
ExecutionError(text) == [type |-> "EXECUTION_ERROR", level |-> "", text |-> text]

RECURSIVE CountType(_, _)
CountType(msgs, type) ==
    IF msgs = << >> THEN 0
    ELSE (IF Head(msgs).type = type THEN 1 ELSE 0) + CountType(Tail(msgs), type)

(***************************************************************************)
(* State engine (virtual-modules): resetState, React.useState, setValue.   *)
(***************************************************************************)
ResetState == 0

\* stateValues[currentIndex] === undefined
HasNoStoredValue(vals, i) == vals[i] = Undefined

\* React.useState(initialValue) at ordinal idx: the new stateValues, the
\* value returned and the next stateIndex.
UseState(idx, vals, initialValue) ==
    LET stored == IF HasNoStoredValue(vals, idx)
                  THEN [vals EXCEPT ![idx] = initialValue]
                  ELSE vals
    IN [values |-> stored, value |-> stored[idx], index |-> idx + 1]

\* setValue(newValue) of the cell bound at ordinal cell: a function argument
\* is applied to the stored value, any other argument is stored as it is.
SetValue(vals, cell, kind, newValue) ==
    [vals EXCEPT ![cell] = IF kind = "updater" THEN Toggle(vals[cell])
                           ELSE newValue]

\* What is recorded of one acquisition: the ordinal it bound to, the initial
\* argument, the slot before and after, the value returned, whether a store
\* had happened at the ordinal before, and the last setter applied there.
Acquisition(idx, vals, ever, sets, initialValue) ==
    LET u == UseState(idx, vals, initialValue)
    IN [ordinal |-> idx, initial |-> initialValue, before |-> vals[idx],
        hadStored |-> idx \in ever, returned |-> u.value,
        after |-> u.values[idx], setter |-> sets[idx]]

\* A component function body that calls useState once per entry of inits,
\* starting at ordinal idx.
RECURSIVE RunHooks(_, _, _, _, _)
RunHooks(idx, vals, ever, sets, inits) ==
    IF inits = << >>
    THEN [index |-> idx, values |-> vals, ever |-> ever, acqs |-> << >>]
    ELSE LET u == UseState(idx, vals, Head(inits))
             rest == RunHooks(u.index, u.values,
                              ever \cup {idx},
                              sets, Tail(inits))
         IN [rest EXCEPT
                !.acqs = <<Acquisition(idx, vals, ever, sets, Head(inits))>>
                         \o rest.acqs]

NeverSet == [applied |-> FALSE, kind |-> "none", value |-> Undefined]

(***************************************************************************)
(* Node identifiers (worker-bridge) and the tree builder used by the       *)
(* worker (virtual-modules over SimpleRenderNode).                         *)
(***************************************************************************)
\* return `node_${++nodeIdCounter}`: the number behind the prefix
GenerateNodeId(counter) == counter + 1

ResetNodeIdCounter == 0

\* The closure kept as onPress: the setter is bound to the ordinal its
\* useState call was given in this pass.
Bind(press, acqs) ==
    IF press.kind = "none"
    THEN [kind |-> "none", cell |-> 0, value |-> Undefined]
    ELSE [kind |-> press.kind, cell |-> acqs[press.hook].ordinal,
          value |-> press.value]

\* new SimpleRenderNode(...) for each element of presses, in order: every
\* constructor call takes the next identifier.
RECURSIVE NewNodes(_, _, _)
NewNodes(presses, acqs, counter) ==
    IF presses = << >> THEN << >>
    ELSE <<[id |-> GenerateNodeId(counter), onPress |-> Bind(Head(presses), acqs)]>>
         \o NewNodes(Tail(presses), acqs, GenerateNodeId(counter))

\* buildRenderTree(element) of the worker: the children are built first, the
\* node of the element itself last.  A function-type child is not invoked:
\* it becomes a plain view node.
BuildRenderTree(p, acqs, counter) ==
    NewNodes(p.kids \o [j \in 1 .. Len(p.nested) |-> NoPress] \o <<p.rootPress>>,
             acqs, counter)

RECURSIVE Returned(_)
Returned(acqs) ==
    IF acqs = << >> THEN << >> ELSE <<Head(acqs).returned>> \o Returned(Tail(acqs))

HandlerOf(nodes, id) ==
    nodes[CHOOSE j \in 1 .. Len(nodes) :
            nodes[j].id = id /\ nodes[j].onPress.kind # "none"].onPress

\* extractEventHandlers without its descent into node.children: only the
\* node it is called on, the root (built last), is looked at.
ExtractRootHandlerOnly(nodes) ==
    [id \in {nodes[j].id : j \in {k \in {Len(nodes)} : nodes[k].onPress.kind # "none"}}
        |-> HandlerOf(nodes, id)]

\* extractEventHandlers(renderTree): node.id -> node.onPress where present
ExtractEventHandlers(nodes) ==
    [id \in {nodes[j].id : j \in {k \in 1 .. Len(nodes) : nodes[k].onPress.kind # "none"}}
        |-> HandlerOf(nodes, id)]

\* toSerializable(): the identifier and hasOnPress: !!this.onPress
ToSerializable(nodes, shown) ==
    [nodes |-> [j \in 1 .. Len(nodes) |->
                   [id |-> nodes[j].id,
                    hasOnPress |-> nodes[j].onPress.kind # "none"]],
     shown |-> shown]

NoTree == [nodes |-> << >>, shown |-> << >>]

(***************************************************************************)
(* Numbers of the renderer.  The layout code divides (by 2, by 100, by the *)
(* number of children, by the flex total), so a number is a fraction n/d   *)
(* in lowest terms with d > 0; the arithmetic is exact.                    *)
(***************************************************************************)
RECURSIVE GCD(_, _)
GCD(a, b) == IF b = 0 THEN a ELSE GCD(b, a % b)

Abs(a) == IF a < 0 THEN -a ELSE a

Frac(n, d) ==
    LET s == IF d < 0 THEN -1 ELSE 1
        g == GCD(Abs(n), Abs(d))
    IN [n |-> (s * n) \div g, d |-> (s * d) \div g]

Num(i) == [n |-> i, d |-> 1]
Plus(a, b) == Frac(a.n * b.d + b.n * a.d, a.d * b.d)
Minus(a, b) == Frac(a.n * b.d - b.n * a.d, a.d * b.d)
Times(a, b) == Frac(a.n * b.n, a.d * b.d)
Over(a, b) == Frac(a.n * b.d, a.d * b.n)
Less(a, b) == a.n * b.d < b.n * a.d
AtMost(a, b) == a.n * b.d <= b.n * a.d
MathMax(a, b) == IF Less(a, b) THEN b ELSE a
MathMin(a, b) == IF Less(b, a) THEN b ELSE a

(***************************************************************************)
(* LayoutStyle.  An optional numeric or size field is a tagged value:      *)
(* kind "undefined" (field absent), "number", "percent" (a string that     *)
(* ends in %, v is what parseFloat reads from it) or "string" (any other   *)
(* string).  An optional keyword field is the keyword or Undefined.        *)
(***************************************************************************)
Absent == [kind |-> "undefined", v |-> Num(0)]
Px(i) == [kind |-> "number", v |-> Num(i)]
Pct(p) == [kind |-> "percent", v |-> Num(p)]
Auto == [kind |-> "string", v |-> Num(0)]
Null == [kind |-> "null", v |-> Num(0)]
Value(x) == [kind |-> "number", v |-> x]

\* JavaScript truthiness of an optional number: `if (style.minWidth)`
Truthy(s) == s.kind = "number" /\ s.v.n # 0

\* a ?? b
Coalesce(a, b) == IF a.kind \in {"undefined", "null"} THEN b ELSE a

\* a || b on an optional keyword
OrDefault(a, b) == IF a = Undefined THEN b ELSE a

\* A style with every field absent: {}
NoStyle ==
    [width |-> Absent, height |-> Absent,
     minWidth |-> Absent, minHeight |-> Absent,
     maxWidth |-> Absent, maxHeight |-> Absent,
     padding |-> Absent, paddingTop |-> Absent, paddingBottom |-> Absent,
     paddingLeft |-> Absent, paddingRight |-> Absent,
     flexDirection |-> Undefined, justifyContent |-> Undefined,
     alignItems |-> Undefined, flex |-> Absent]

\* LayoutResult; `defined` is FALSE for the `layout: undefined` of a node
\* that was never laid out.
LayoutResult(l, t, w, h) ==
    [defined |-> TRUE, left |-> l, top |-> t, width |-> w, height |-> h]
NoLayout ==
    [defined |-> FALSE, left |-> Num(0), top |-> Num(0),
     width |-> Num(0), height |-> Num(0)]

\* new SimpleRenderNode({style, children}): layout starts undefined
Node(style, children) ==
    [style |-> style, children |-> children, layout |-> NoLayout]

(***************************************************************************)
(* fallback-layout: parseSize, calculateLayout, layoutChildren.            *)
(***************************************************************************)
\* parseSize(size, containerSize): a number or Null
ParseSize(size, containerSize) ==
    CASE size.kind = "undefined" -> Null
      [] size.kind = "number" -> size
      [] size.kind = "percent" ->
             Value(Times(Over(size.v, Num(100)), containerSize))
      [] OTHER -> Null

\* `style.paddingTop ?? style.padding ?? 0`, for the four sides
Padding(style) ==
    [top |-> Coalesce(Coalesce(style.paddingTop, style.padding), Px(0)).v,
     bottom |-> Coalesce(Coalesce(style.paddingBottom, style.padding), Px(0)).v,
     left |-> Coalesce(Coalesce(style.paddingLeft, style.padding), Px(0)).v,
     right |-> Coalesce(Coalesce(style.paddingRight, style.padding), Px(0)).v]

\* if (style.minX) x = Math.max(x, style.minX); if (style.maxX) x = Math.min(..)
Constrain(x, min, max) ==
    LET raised == IF Truthy(min) THEN MathMax(x, min.v) ELSE x
    IN IF Truthy(max) THEN MathMin(raised, max.v) ELSE raised

\* calculateLayout: the node's own dimensions, in a fresh box at 0,0
OwnBox(style, containerWidth, containerHeight) ==
    LET full == Truthy(style.flex) /\ Less(Num(0), style.flex.v)
        width == IF full THEN containerWidth
                 ELSE Coalesce(ParseSize(style.width, containerWidth),
                               Value(containerWidth)).v
        height == IF full THEN containerHeight
                  ELSE Coalesce(ParseSize(style.height, containerHeight),
                                Value(containerHeight)).v
    IN LayoutResult(Num(0), Num(0),
                    Constrain(width, style.minWidth, style.maxWidth),
                    Constrain(height, style.minHeight, style.maxHeight))

\* layoutChildren, first loop: totalFixedSize and totalFlex
RECURSIVE Totals(_, _, _, _)
Totals(children, isRow, containerWidth, containerHeight) ==
    IF children = << >> THEN [fixed |-> Num(0), flex |-> Num(0)]
    ELSE LET childStyle == Head(children).style
             rest == Totals(Tail(children), isRow, containerWidth,
                            containerHeight)
             size == IF isRow THEN ParseSize(childStyle.width, containerWidth)
                     ELSE ParseSize(childStyle.height, containerHeight)
         IN IF size.kind # "null"
            THEN [rest EXCEPT !.fixed = Plus(size.v, rest.fixed)]
            ELSE IF Truthy(childStyle.flex)
                 THEN [rest EXCEPT !.flex = Plus(childStyle.flex.v, rest.flex)]
                 ELSE rest

\* layoutChildren, between the loops: flexSpace, flexUnit, spacing,
\* startOffset
Distribution(mainSize, totals, justifyContent, count) ==
    LET flexSpace == MathMax(Num(0), Minus(mainSize, totals.fixed))
        flexUnit == IF Less(Num(0), totals.flex)
                    THEN Over(flexSpace, totals.flex) ELSE Num(0)
        left == Minus(Minus(mainSize, totals.fixed),
                      Times(flexUnit, totals.flex))
    IN [flexSpace |-> flexSpace,
        flexUnit |-> flexUnit,
        spacing |->
            CASE justifyContent = "space-between" /\ count > 1 ->
                     Over(left, Num(count - 1))
              [] justifyContent = "space-around" -> Over(left, Num(count))
              [] OTHER -> Num(0),
        startOffset |->
            CASE justifyContent = "center" -> Over(left, Num(2))
              [] justifyContent = "flex-end" -> left
              [] justifyContent = "space-around" ->
                     Over(Over(left, Num(count)), Num(2))
              [] OTHER -> Num(0)]

\* layoutChildren, second loop: the sizes and the cross position of a child
ChildSlot(childStyle, c) ==
    LET main0 == IF c.isRow
                 THEN ParseSize(childStyle.width, c.containerWidth)
                 ELSE ParseSize(childStyle.height, c.containerHeight)
        childMainSize ==
            IF main0.kind # "null" THEN main0.v
            ELSE IF Truthy(childStyle.flex)
                 THEN Times(c.flexUnit, childStyle.flex.v)
                 ELSE Num(100)
        cross0 == IF c.isRow
                  THEN ParseSize(childStyle.height, c.containerHeight)
                  ELSE ParseSize(childStyle.width, c.containerWidth)
        childCrossSize ==
            IF cross0.kind # "null" THEN cross0.v
            ELSE IF c.alignItems = "stretch" THEN c.crossSize ELSE Num(100)
        origin == IF c.isRow THEN c.offsetY ELSE c.offsetX
        crossPos ==
            CASE c.alignItems = "center" ->
                     Plus(origin, Over(Minus(c.crossSize, childCrossSize),
                                       Num(2)))
              [] c.alignItems = "flex-end" ->
                     Plus(origin, Minus(c.crossSize, childCrossSize))
              [] OTHER -> origin
    IN [childMainSize |-> childMainSize, childCrossSize |-> childCrossSize,
        crossPos |-> crossPos,
        childWidth |-> IF c.isRow THEN childMainSize ELSE childCrossSize,
        childHeight |-> IF c.isRow THEN childCrossSize ELSE childMainSize]

\* A second loop that leaves the child where its own calculateLayout put it.
LeaveChildAtOrigin(child, c, currentPos, crossPos) == child

\* child.layout.left = ..., child.layout.top = ...
PlaceChild(child, c, currentPos, crossPos) ==
    [child EXCEPT !.layout.left = IF c.isRow THEN currentPos ELSE crossPos,
                  !.layout.top = IF c.isRow THEN crossPos ELSE currentPos]

RECURSIVE CalculateLayout(_, _, _)
RECURSIVE PositionChildren(_, _, _)

\* layoutChildren, second loop
PositionChildren(children, c, currentPos) ==
    IF children = << >> THEN << >>
    ELSE LET child == Head(children)
             slot == ChildSlot(child.style, c)
             sized == CalculateLayout(child, slot.childWidth, slot.childHeight)
         IN <<PlaceChild(sized, c, currentPos, slot.crossPos)>>
              \o PositionChildren(Tail(children), c,
                                  Plus(currentPos,
                                       Plus(slot.childMainSize, c.spacing)))

\* layoutChildren
LayoutChildren(children, containerWidth, containerHeight, offsetX, offsetY, flexDirection, justifyContent, alignItems) ==
    LET isRow == flexDirection = "row"
        mainSize == IF isRow THEN containerWidth ELSE containerHeight
        crossSize == IF isRow THEN containerHeight ELSE containerWidth
        d == Distribution(mainSize,
                          Totals(children, isRow, containerWidth,
                                 containerHeight),
                          justifyContent, Len(children))
        c == [isRow |-> isRow, containerWidth |-> containerWidth,
              containerHeight |-> containerHeight, crossSize |-> crossSize,
              offsetX |-> offsetX, offsetY |-> offsetY,
              alignItems |-> alignItems, flexUnit |-> d.flexUnit,
              spacing |-> d.spacing]
        start == IF flexDirection = "column" THEN offsetY ELSE offsetX
    IN PositionChildren(children, c, Plus(start, d.startOffset))

\* calculateLayout(node, containerWidth, containerHeight): the node with its
\* layout and the layouts of its descendants assigned
CalculateLayout(node, containerWidth, containerHeight) ==
    LET style == node.style
        pad == Padding(style)
        layout == OwnBox(style, containerWidth, containerHeight)
    IN IF Len(node.children) > 0
       THEN [node EXCEPT
               !.layout = layout,
               !.children =
                   LayoutChildren(node.children,
                       Minus(Minus(layout.width, pad.left), pad.right),
                       Minus(Minus(layout.height, pad.top), pad.bottom),
                       pad.left, pad.top,
                       OrDefault(style.flexDirection, "column"),
                       OrDefault(style.justifyContent, "flex-start"),
                       OrDefault(style.alignItems, "flex-start"))]
       ELSE [node EXCEPT !.layout = layout]

(***************************************************************************)
(* simple-render-node: SimpleRenderNode.calculateLayout.                   *)
(***************************************************************************)
DefaultWidth == 393
DefaultHeight == 852

\* `width || 393`, `height || 852`
OrNumber(arg, default) == IF Truthy(arg) THEN arg.v ELSE Num(default)

\* An updateLayoutsFromNode that adds the new offsets to the ones the node
\* already had.
AccumulateLayout(old, new) ==
    IF old.defined
    THEN [new EXCEPT !.left = Plus(old.left, new.left),
                     !.top = Plus(old.top, new.top)]
    ELSE new

\* updateLayoutsFromNode: this.layout = layoutNode.layout
AssignLayout(old, new) == new

RECURSIVE UpdateLayoutsFromNode(_, _)
UpdateLayoutsFromNode(node, layoutNode) ==
    [node EXCEPT
        !.layout = AssignLayout(node.layout, layoutNode.layout),
        !.children = [i \in 1 .. Len(node.children) |->
                         IF i <= Len(layoutNode.children)
                         THEN UpdateLayoutsFromNode(node.children[i],
                                                    layoutNode.children[i])
                         ELSE node.children[i]]]

\* node.calculateLayout(width, height); toLayoutNode copies style, children
\* and layout, which is the node itself here
SimpleCalculateLayout(node, width, height) ==
    UpdateLayoutsFromNode(node,
        CalculateLayout(node, OrNumber(width, DefaultWidth),
                        OrNumber(height, DefaultHeight)))

(***************************************************************************)
(* hit-testing: hitTest over a SerializableNode tree.  Node "node_<n>" is  *)
(* the integer n; coordinates are integers (hitTest adds and compares).    *)
(***************************************************************************)
\* `return null`
NullId == 0

Point(x, y) == [x |-> x, y |-> y]
Box(l, t, w, h) == [left |-> l, top |-> t, width |-> w, height |-> h]

\* A SerializableNode, as far as hitTest reads it
Serializable(id, layout, hasOnPress, children) ==
    [id |-> id, layout |-> layout, hasOnPress |-> hasOnPress,
     children |-> children]

\* An isInside that forgets the right and bottom edges.
IsInsideFromOrigin(point, x, y, width, height) ==
    point.x >= x /\ point.y >= y

\* isInside, edges included
IsInside(point, x, y, width, height) ==
    /\ point.x >= x
    /\ point.x <= x + width
    /\ point.y >= y
    /\ point.y <= y + height

\* A hitTest that never descends: no child is asked.
HitChildrenNone(children, i, point, x, y) == NullId

RECURSIVE HitTest(_, _, _, _)
RECURSIVE HitChildren(_, _, _, _, _)

\* for (i = children.length - 1; i >= 0; i--): the first truthy result;
\* here i runs from Len(children) down to 1
HitChildren(children, i, point, x, y) ==
    IF i < 1 THEN NullId
    ELSE LET hitNodeId == HitTest(children[i], point, x, y)
         IN IF hitNodeId # NullId THEN hitNodeId
            ELSE HitChildren(children, i - 1, point, x, y)

\* hitTest(node, point, offsetX, offsetY)
HitTest(node, point, offsetX, offsetY) ==
    LET x == offsetX + node.layout.left
        y == offsetY + node.layout.top
    IN IF ~IsInside(point, x, y, node.layout.width, node.layout.height)
       THEN NullId
       ELSE LET hitNodeId ==
                    HitChildren(node.children, Len(node.children), point, x, y)
            IN IF hitNodeId # NullId THEN hitNodeId
               ELSE IF node.hasOnPress THEN node.id ELSE NullId

(***************************************************************************)
(* Virtual elements and the two tree builders (virtual-modules): the one   *)
(* over SimpleRenderNode that the worker uses and the one over RenderNode  *)
(* that code-executor uses.  A string is the sequence of its pieces, so    *)
(* that concatenation is \o and the empty string is << >>.                 *)
(***************************************************************************)
Str(chars) == [kind |-> "string", chars |-> chars]
Number(n) == [kind |-> "number", n |-> n]
NullValue == [kind |-> "null"]
UndefinedValue == [kind |-> "undefined"]
ArrayOf(items) == [kind |-> "array", items |-> items]

\* ReactNative.View = 'View', ...: an element type that is a string
Kind(name) == [kind |-> "string", name |-> name]
\* An element type that is a function component returning `result`
Component(result) == [kind |-> "function", returns |-> result]
TypeName(type) == IF type.kind = "string" THEN type.name ELSE "function"

\* JavaScript truthiness
IsTruthy(v) ==
    CASE v.kind = "string" -> v.chars # << >>
      [] v.kind = "number" -> v.n # 0
      [] v.kind \in {"null", "false", "undefined"} -> FALSE
      [] OTHER -> TRUE

\* createElement(type, props, ...children); props is {onPress} or {}
CreateElement(type, onPress, children) ==
    LET Kept(child) == child.kind \notin {"null", "undefined", "false"}
        actualChildren == SelectSeq(children, Kept)
    IN [kind |-> "element", type |-> type,
        props |-> [onPress |-> onPress,
                   children |-> IF Len(actualChildren) = 1
                                THEN actualChildren[1]
                                ELSE ArrayOf(actualChildren)]]

\* Array.isArray(children) ? children : [children]
ChildArray(children) ==
    IF children.kind = "array" THEN children.items ELSE <<children>>

\* String(child) of a string or a non-negative integer
DigitChars == <<"0", "1", "2", "3", "4", "5", "6", "7", "8", "9">>
RECURSIVE Digits(_)
Digits(n) ==
    IF n < 10 THEN <<DigitChars[n + 1]>>
    ELSE Digits(n \div 10) \o <<DigitChars[(n % 10) + 1]>>
ToText(child) == IF child.kind = "number" THEN Digits(child.n) ELSE child.chars

\* A built node; RenderNode has no identifier (id 0)
BuiltNode(id, type, text, children, onPress) ==
    [kind |-> "node", id |-> id, type |-> type, text |-> text,
     children |-> children, onPress |-> onPress]
NullNode == [kind |-> "null"]

RECURSIVE BuildSimpleTree(_, _)
RECURSIVE BuildSimpleChildren(_, _)

\* buildRenderTree over SimpleRenderNode: childArray.forEach
BuildSimpleChildren(childArray, counter) ==
    IF childArray = << >> THEN [nodes |-> << >>, counter |-> counter]
    ELSE LET child == Head(childArray)
             first ==
                 IF child.kind \in {"string", "number"}
                 THEN [nodes |-> <<BuiltNode(GenerateNodeId(counter), "text",
                                             Str(ToText(child)), << >>, FALSE)>>,
                       counter |-> GenerateNodeId(counter)]
                 ELSE IF child.kind = "element"
                 THEN LET b == BuildSimpleTree(child, counter)
                      IN [nodes |-> IF b.node.kind = "node" THEN <<b.node>>
                                    ELSE << >>,
                          counter |-> b.counter]
                 ELSE [nodes |-> << >>, counter |-> counter]
             rest == BuildSimpleChildren(Tail(childArray), first.counter)
         IN [nodes |-> first.nodes \o rest.nodes, counter |-> rest.counter]

\* buildRenderTree over SimpleRenderNode (the worker's)
BuildSimpleTree(element, counter) ==
    IF ~IsTruthy(element) THEN [node |-> NullNode, counter |-> counter]
    ELSE LET kids == IF IsTruthy(element.props.children)
                     THEN BuildSimpleChildren(
                              ChildArray(element.props.children), counter)
                     ELSE [nodes |-> << >>, counter |-> counter]
             type == IF TypeName(element.type) \in {"View", "TouchableOpacity"}
                     THEN "view"
                     ELSE IF TypeName(element.type) = "Text" THEN "text"
                     ELSE "view"
             single == type = "text" /\ Len(kids.nodes) = 1
         IN [node |->
                 BuiltNode(GenerateNodeId(kids.counter), type,
                           IF single /\ IsTruthy(kids.nodes[1].text)
                           THEN kids.nodes[1].text ELSE UndefinedValue,
                           IF single THEN << >> ELSE kids.nodes,
                           element.props.onPress),
             counter |-> GenerateNodeId(kids.counter)]

\* childArray.map(child => string or number ? String(child) : '').join('')
RECURSIVE JoinText(_)
JoinText(childArray) ==
    IF childArray = << >> THEN << >>
    ELSE (IF Head(childArray).kind \in {"string", "number"}
          THEN ToText(Head(childArray)) ELSE << >>)
         \o JoinText(Tail(childArray))

RECURSIVE BuildRenderNode(_)
RECURSIVE BuildRenderNodes(_)

\* buildRenderTree over RenderNode: for (const child of childArray);
\* reset tells whether resetState() was called on the way
BuildRenderNodes(childArray) ==
    IF childArray = << >> THEN [nodes |-> << >>, reset |-> FALSE]
    ELSE LET child == Head(childArray)
             first == IF child.kind = "element"
                      THEN LET b == BuildRenderNode(child)
                           IN [nodes |-> IF b.node.kind = "node"
                                         THEN <<b.node>> ELSE << >>,
                               reset |-> b.reset]
                      ELSE [nodes |-> << >>, reset |-> FALSE]
             rest == BuildRenderNodes(Tail(childArray))
         IN [nodes |-> first.nodes \o rest.nodes,
             reset |-> first.reset \/ rest.reset]

\* buildRenderTree over RenderNode (code-executor's)
BuildRenderNode(element) ==
    IF ~IsTruthy(element) THEN [node |-> NullNode, reset |-> FALSE]
    ELSE IF element.type.kind = "function"
    THEN [BuildRenderNode(element.type.returns) EXCEPT !.reset = TRUE]
    ELSE IF TypeName(element.type) \in {"View", "TouchableOpacity"}
    THEN LET kids == IF IsTruthy(element.props.children)
                     THEN BuildRenderNodes(ChildArray(element.props.children))
                     ELSE [nodes |-> << >>, reset |-> FALSE]
         IN [node |-> BuiltNode(0, "view", UndefinedValue, kids.nodes,
                                element.props.onPress),
             reset |-> kids.reset]
    ELSE IF TypeName(element.type) = "Text"
    THEN [node |-> BuiltNode(0, "text",
                       Str(IF IsTruthy(element.props.children)
                           THEN JoinText(ChildArray(element.props.children))
                           ELSE << >>),
                       << >>, FALSE),
          reset |-> FALSE]
    ELSE [node |-> NullNode, reset |-> FALSE]

NoBuilt == [by |-> "none", node |-> NullNode]

\* The renderer variables while nothing is laid out and nothing is tapped
NoArgs == << >>
NoPrev == [root |-> Node(NoStyle, << >>), args |-> NoArgs]
NoHit == [done |-> FALSE, id |-> NullId]
RendererIdle ==
    /\ layoutRoot = Node(NoStyle, << >>)
    /\ layoutArgs = NoArgs
    /\ layoutPrev = NoPrev
    /\ hitRoot = Serializable(1, Box(0, 0, 0, 0), FALSE, << >>)
    /\ hitPoint = Point(0, 0)
    /\ hitResult = NoHit
    /\ virtualElement = NullValue
    /\ built = NoBuilt

(***************************************************************************)
(* The Execution Host (worker.ts).                                         *)
(***************************************************************************)
\* What is remembered of the handler that ran last.
\*   readyAtStart  a WORKER_READY had been posted before it began
\*   rootIndex     stateIndex when the root component was invoked, -1 if the
\*                 pass never reached the invocation
\*   stale, ran    for a dispatch: the identifier came from a superseded
\*                 tree; a press callback was invoked
Op(op, p, rootIndex, stale, ran) ==
    [op |-> op, prog |-> p, readyAtStart |-> hist.ready > 0,
     modules |-> modulesReady, rootIndex |-> rootIndex,
     stale |-> stale, ran |-> ran]

NoHist == [inits |-> 0, execs |-> 0, dispatches |-> 0, ready |-> 0,
           initFailures |-> 0, readyAfterFailure |-> FALSE, failed |-> {}]

\* The module names user code imports: an import of anything but the two
\* virtual modules is what makes eval(wrapCode(code)) fail with
\* "unknownModule".
ModuleNames == {"react", "react-native", "lodash", "react-dom"}
Imports(p) ==
    IF p.load = "unknownModule" THEN {"react", "lodash"}
    ELSE {"react", "react-native"}

ModuleNotFound == "Module not found"

\* A require without its final throw: what is not 'react' is answered like
\* 'react-native'.
RequireAnything(moduleName) ==
    IF moduleName = "react" THEN "React" ELSE "ReactNative"

\* const require = (moduleName) => ... of wrapCode
Require(moduleName) ==
    IF moduleName = "react" THEN "React"
    ELSE IF moduleName = "react-native" THEN "ReactNative"
    ELSE ModuleNotFound

\* The catch block of executeCode: error.message is read first, which itself
\* throws when the thrown value is null or undefined, so that nothing more
\* is posted.
CatchExecution(thrown, text) ==
    IF thrown = "null" THEN << >>
    ELSE <<Log("error", "Execution error"), ExecutionError(text)>>

\* The body of executeCode(code, deviceWidth, deviceHeight) as a function of
\* the state it reads: the messages posted and the state it leaves.  kept is
\* what a failed pass leaves of the module surface set up by initWorker.
Pipeline(p, mods, vals, ever, sets, tree, kept) ==
    LET idx0 == ResetState
        ctr0 == ResetNodeIdCounter
        begin == <<Log("info", "Executing code")>>
        failed(thrown, text, idx, vs, ev, as, root) ==
            [posted |-> begin \o CatchExecution(thrown, text),
             index |-> idx, values |-> vs, ever |-> ev, acqs |-> as,
             rootIndex |-> root, counter |-> ctr0, tree |-> tree,
             handlers |-> << >>, built |-> FALSE, modules |-> kept,
             failure |-> text]
        h == RunHooks(idx0, vals, ever, sets, p.hooks)
        nodes == BuildRenderTree(p, h.acqs, ctr0)
    IN  IF p.transform = "error"
        THEN failed("Error", "Transform error", idx0, vals, ever, << >>, -1)
        ELSE IF ~mods
        THEN failed("Error", "TypeError", idx0, vals, ever, << >>, -1)
        ELSE IF \E m \in Imports(p) : Require(m) = ModuleNotFound
        THEN failed("Error", ModuleNotFound, idx0, vals, ever, << >>, -1)
        ELSE IF p.load = "notFunction"
        THEN failed("Error", "Code must export a default function component",
                    idx0, vals, ever, << >>, -1)
        ELSE IF p.body = "throwsError"
        THEN failed("Error", "user", h.index, h.values, h.ever, h.acqs, idx0)
        ELSE IF p.body = "throwsNull"
        THEN failed("null", "thrown null", h.index, h.values, h.ever, h.acqs, idx0)
        ELSE IF p.body = "returnsNull"
        THEN failed("Error", "Failed to build render tree",
                    h.index, h.values, h.ever, h.acqs, idx0)
        ELSE [posted |-> begin \o <<RenderTree, Log("info", "Code executed")>>,
              index |-> h.index, values |-> h.values, ever |-> h.ever,
              acqs |-> h.acqs, rootIndex |-> idx0,
              counter |-> ctr0 + Len(nodes),
              tree |-> [nodes |-> nodes, shown |-> Returned(h.acqs)],
              handlers |-> ExtractEventHandlers(nodes), built |-> TRUE,
              modules |-> mods, failure |-> ""]

\* A host whose failed pass tears the module surface down.
ExecutePassTeardown(p, mods, vals, ever, sets, tree) ==
    Pipeline(p, mods, vals, ever, sets, tree, FALSE)

\* A host that drops currentRenderTree with the other resets at the start of
\* a pass.
ExecutePassClearsTree(p, mods, vals, ever, sets, tree) ==
    Pipeline(p, mods, vals, ever, sets, NoTree, mods)

\* executeCode: nothing of the module surface is touched, whatever the
\* outcome of the pass.
ExecutePass(p, mods, vals, ever, sets, tree) ==
    Pipeline(p, mods, vals, ever, sets, tree, mods)

\* case 'EXECUTE_CODE'
ExecuteCode(p) ==
    /\ hist.execs < MaxExecs
    /\ LET r == ExecutePass(p, modulesReady, stateValues, everStored, lastSet,
                            currentRenderTree)
       IN /\ stateIndex' = r.index
          /\ stateValues' = r.values
          /\ nodeIdCounter' = r.counter
          /\ eventHandlers' = r.handlers
          /\ currentRenderTree' = r.tree
          /\ out' = r.posted
          /\ acq' = r.acqs
          /\ everStored' = r.ever
          /\ delivered' = IF r.built
                          THEN Append(delivered,
                                      ToSerializable(r.tree.nodes, r.tree.shown))
                          ELSE delivered
          /\ modulesReady' = r.modules
          /\ lastOp' = Op("execute", p, r.rootIndex, FALSE, FALSE)
          /\ hist' = [hist EXCEPT !.execs = @ + 1,
                                  !.failed = IF r.built THEN @
                                             ELSE @ \cup {r.failure}]
    /\ UNCHANGED rendererVars
    /\ UNCHANGED <<stateUpdateCallback, initialized, yogaInstance,
                   pendingInits, lastSet, previewVars>>

\* The part of initWorker after `await initYoga()` has returned.
InitDone ==
    <<Log("info", "Yoga WASM loaded"), Log("info", "Virtual modules ready"),
      WorkerReady, Log("info", "Ready")>>

\* The catch block of initWorker.
InitFailed ==
    <<Log("error", "Initialization failed"),
      ExecutionError("Worker initialization failed")>>

NoteReady(h) ==
    [h EXCEPT !.ready = @ + 1,
              !.readyAfterFailure = @ \/ h.initFailures > 0]

\* case 'INIT_WORKER': initWorker() up to its await.  With yogaInstance set,
\* initYoga returns at once and initWorker runs to its end before the next
\* message is taken.
InitWorker ==
    /\ hist.inits < MaxInits
    /\ IF initialized
       THEN /\ out' = << >>
            /\ hist' = [hist EXCEPT !.inits = @ + 1]
            /\ UNCHANGED <<initialized, modulesReady, pendingInits>>
       ELSE IF yogaInstance
       THEN /\ out' = <<Log("info", "Initializing")>> \o InitDone
            /\ initialized' = TRUE
            /\ modulesReady' = TRUE
            /\ hist' = NoteReady([hist EXCEPT !.inits = @ + 1])
            /\ UNCHANGED pendingInits
       ELSE /\ out' = <<Log("info", "Initializing")>>
            /\ pendingInits' = pendingInits + 1
            /\ hist' = [hist EXCEPT !.inits = @ + 1]
            /\ UNCHANGED <<initialized, modulesReady>>
    /\ lastOp' = Op("init", Static, -1, FALSE, FALSE)
    /\ UNCHANGED rendererVars
    /\ UNCHANGED <<engineVars, currentRenderTree, eventHandlers, nodeIdCounter,
                   yogaInstance, previewVars, acq, everStored, lastSet, delivered>>

\* Yoga() resolves for one suspended initWorker call.
InitResolve ==
    /\ pendingInits > 0
    /\ pendingInits' = pendingInits - 1
    /\ yogaInstance' = TRUE
    /\ modulesReady' = TRUE
    /\ initialized' = TRUE
    /\ out' = InitDone
    /\ hist' = NoteReady(hist)
    /\ lastOp' = Op("initResolve", Static, -1, FALSE, FALSE)
    /\ UNCHANGED rendererVars
    /\ UNCHANGED <<engineVars, currentRenderTree, eventHandlers, nodeIdCounter,
                   previewVars, acq, everStored, lastSet, delivered>>

\* Yoga() rejects for one suspended initWorker call.
InitReject ==
    /\ pendingInits > 0
    /\ pendingInits' = pendingInits - 1
    /\ out' = InitFailed
    /\ hist' = [hist EXCEPT !.initFailures = @ + 1]
    /\ lastOp' = Op("initReject", Static, -1, FALSE, FALSE)
    /\ UNCHANGED rendererVars
    /\ UNCHANGED <<engineVars, initialized, currentRenderTree, eventHandlers,
                   nodeIdCounter, yogaInstance, modulesReady, previewVars, acq,
                   everStored, lastSet, delivered>>

\* handleStateUpdate(): the registered update callback of the worker.  It
\* logs and starts nothing.
HandleStateUpdate == <<Log("info", "State updated, re-rendering")>>

\* The record kept of a setter application at an ordinal.
Applied(vals, h) ==
    [applied |-> TRUE, kind |-> h.kind,
     value |-> SetValue(vals, h.cell, h.kind, h.value)[h.cell]]

\* case 'DISPATCH_EVENT': dispatchEvent(nodeId, 'press').  The identifier is
\* the one of node j of the g-th delivered tree.
DispatchEvent(g, j) ==
    /\ hist.dispatches < MaxDispatches
    /\ LET nodeId == delivered[g].nodes[j].id
           found == nodeId \in DOMAIN eventHandlers
           handler == eventHandlers[nodeId]
       IN /\ IF found
             THEN /\ stateValues' = SetValue(stateValues, handler.cell,
                                             handler.kind, handler.value)
                  /\ everStored' = everStored \cup {handler.cell}
                  /\ lastSet' = [lastSet EXCEPT
                                    ![handler.cell] = Applied(stateValues, handler)]
                  /\ out' = <<Log("info", "Dispatching press")>>
                            \o (IF stateUpdateCallback = "none" THEN << >>
                                ELSE HandleStateUpdate)
                            \o (IF currentRenderTree # NoTree
                                THEN <<Log("info", "Re-executing after state change")>>
                                ELSE << >>)
             ELSE /\ out' = <<Log("info", "Dispatching press"),
                              Log("warn", "No handler found")>>
                  /\ UNCHANGED <<stateValues, everStored, lastSet>>
          /\ lastOp' = Op("dispatch", Static, -1, g < Len(delivered), found)
    /\ hist' = [hist EXCEPT !.dispatches = @ + 1]
    /\ UNCHANGED rendererVars
    /\ UNCHANGED <<stateIndex, stateUpdateCallback, workerVars, previewVars,
                   acq, delivered>>

\* let lastExecutedCode = '': no code has been wrapped yet
NoCode == Prog("none", "none", << >>, "none", << >>, NoPress, << >>)

\* The worker and the main thread after construction
WorkerInit ==
    /\ stateIndex = 0
    /\ stateValues = [c \in Cells |-> Undefined]
    /\ stateUpdateCallback = "handleStateUpdate"
    /\ initialized = FALSE
    /\ currentRenderTree = NoTree
    /\ eventHandlers = << >>
    /\ nodeIdCounter = 0
    /\ yogaInstance = FALSE
    /\ modulesReady = FALSE
    /\ pendingInits = 0
    /\ lastExecutedCode = NoCode
    /\ lastRenderCallback = "none"
    /\ currentScene = << >>
    /\ out = << >>
    /\ lastOp = [op |-> "none", prog |-> Static, readyAtStart |-> FALSE,
                 modules |-> FALSE, rootIndex |-> -1, stale |-> FALSE,
                 ran |-> FALSE]
    /\ acq = << >>
    /\ everStored = {}
    /\ lastSet = [c \in Cells |-> NeverSet]
    /\ delivered = << >>
    /\ hist = NoHist

Init == WorkerInit /\ RendererIdle

Next ==
    \/ InitWorker
    \/ InitResolve
    \/ InitReject
    \/ \E p \in Programs : ExecuteCode(p)
    \/ \E g \in 1 .. Len(delivered) :
          \E j \in 1 .. Len(delivered[g].nodes) : DispatchEvent(g, j)

Spec == Init /\ [][Next]_vars

(***************************************************************************)
(* The main-thread executor (code-executor, driven by PhonePreview), over  *)
(* the virtual-modules build that evaluates function-type elements.        *)
(***************************************************************************)
\* buildRenderTree on the function-type children, in order: resetState(),
\* then element.type(element.props), whose useState calls start at 0.
RECURSIVE RunNested(_, _, _, _, _)
RunNested(idx, vals, ever, sets, nested) ==
    IF nested = << >>
    THEN [index |-> idx, values |-> vals, ever |-> ever, acqs |-> << >>]
    ELSE LET h == RunHooks(ResetState, vals, ever, sets, Head(nested))
             rest == RunNested(h.index, h.values, h.ever, sets, Tail(nested))
         IN [rest EXCEPT !.acqs = h.acqs \o rest.acqs]

RECURSIVE BindAll(_, _)
BindAll(presses, acqs) ==
    IF presses = << >> THEN << >>
    ELSE <<Bind(Head(presses), acqs)>> \o BindAll(Tail(presses), acqs)

\* const AppComponent = eval(code); AppComponent({}); buildRenderTree(element)
\* as executeCode and reExecute both run it: the root component is invoked
\* at the stateIndex the previous pass left.
EvaluateAndBuild(p, idx, vals, ever, sets) ==
    LET h == RunHooks(idx, vals, ever, sets, p.hooks)
        n == RunNested(h.index, h.values, h.ever, sets, p.nested)
        failed(i, vs, ev, as, root) ==
            [success |-> FALSE, index |-> i, values |-> vs, ever |-> ev,
             acqs |-> as, rootIndex |-> root, scene |-> << >>]
    IN  IF p.load # "function"
        THEN failed(idx, vals, ever, << >>, -1)
        ELSE IF p.body # "returns"
        THEN failed(h.index, h.values, h.ever, h.acqs, idx)
        ELSE [success |-> TRUE, index |-> n.index, values |-> n.values,
              ever |-> n.ever, acqs |-> h.acqs \o n.acqs, rootIndex |-> idx,
              scene |-> BindAll(p.kids \o [j \in 1 .. Len(p.nested) |-> NoPress]
                                \o <<p.rootPress>>, h.acqs)]

\* The ordinals a pass over p started at idx can touch are modelled.
Fits(p, idx) == idx + Len(p.hooks) <= MaxCells

\* PhonePreview.executeUserCode: executeCode(editorContent, handleStateUpdate)
XExecuteCode(p) ==
    /\ hist.execs < MaxExecs
    /\ Fits(p, stateIndex)
    /\ lastRenderCallback' = "preview.handleStateUpdate"
    /\ stateUpdateCallback' = "preview.handleStateUpdate"
    /\ IF p.transform = "error"
       THEN /\ lastOp' = Op("xexecute", p, -1, FALSE, FALSE)
            /\ acq' = << >>
            /\ UNCHANGED <<stateIndex, stateValues, everStored,
                           lastExecutedCode, currentScene>>
       ELSE LET r == EvaluateAndBuild(p, stateIndex, stateValues, everStored,
                                      lastSet)
            IN /\ lastExecutedCode' = p
               /\ stateIndex' = r.index
               /\ stateValues' = r.values
               /\ everStored' = r.ever
               /\ acq' = r.acqs
               /\ currentScene' = IF r.success THEN r.scene ELSE currentScene
               /\ lastOp' = Op("xexecute", p, r.rootIndex, FALSE, FALSE)
    /\ hist' = [hist EXCEPT !.execs = @ + 1]
    /\ UNCHANGED rendererVars
    /\ UNCHANGED <<workerVars, out, lastSet, delivered>>

\* PhonePreview.handleCanvasClick on node j of the scene: hitNode.onPress(),
\* whose setter invokes the update callback, which calls reExecute() and
\* shows the tree it returns.
XClick(j) ==
    /\ hist.dispatches < MaxDispatches
    /\ j \in 1 .. Len(currentScene)
    /\ currentScene[j].kind # "none"
    /\ lastExecutedCode # NoCode
    /\ Fits(lastExecutedCode, stateIndex)
    /\ LET handler == currentScene[j]
           set == SetValue(stateValues, handler.cell, handler.kind, handler.value)
           sets == [lastSet EXCEPT ![handler.cell] = Applied(stateValues, handler)]
           r == EvaluateAndBuild(lastExecutedCode, stateIndex, set,
                                 everStored \cup {handler.cell}, sets)
       IN /\ lastSet' = sets
          /\ stateIndex' = r.index
          /\ stateValues' = r.values
          /\ everStored' = r.ever
          /\ acq' = r.acqs
          /\ currentScene' = IF r.success THEN r.scene ELSE currentScene
          /\ lastOp' = Op("xclick", lastExecutedCode, r.rootIndex, FALSE, TRUE)
    /\ hist' = [hist EXCEPT !.dispatches = @ + 1]
    /\ UNCHANGED rendererVars
    /\ UNCHANGED <<stateUpdateCallback, workerVars, lastExecutedCode,
                   lastRenderCallback, out, delivered>>

XInit ==
    /\ stateIndex = 0
    /\ stateValues = [c \in Cells |-> Undefined]
    /\ stateUpdateCallback = "none"
    /\ initialized = FALSE
    /\ currentRenderTree = NoTree
    /\ eventHandlers = << >>
    /\ nodeIdCounter = 0
    /\ yogaInstance = FALSE
    /\ modulesReady = FALSE
    /\ pendingInits = 0
    /\ lastExecutedCode = NoCode
    /\ lastRenderCallback = "none"
    /\ currentScene = << >>
    /\ out = << >>
    /\ lastOp = [op |-> "none", prog |-> Static, readyAtStart |-> FALSE,
                 modules |-> FALSE, rootIndex |-> -1, stale |-> FALSE,
                 ran |-> FALSE]
    /\ acq = << >>
    /\ everStored = {}
    /\ lastSet = [c \in Cells |-> NeverSet]
    /\ delivered = << >>
    /\ hist = NoHist
    /\ RendererIdle

XNext ==
    \/ \E p \in Programs : XExecuteCode(p)
    \/ \E j \in 1 .. Len(currentScene) : XClick(j)

ExecSpec == XInit /\ [][XNext]_vars

(***************************************************************************)
(* The layout engine on its own: a SimpleRenderNode tree is built and      *)
(* root.calculateLayout is called on it, any number of times.              *)
(***************************************************************************)
MaxKids == 2         \* children of the root of a laid-out or tapped tree

Sized(w, h) == [NoStyle EXCEPT !.width = w, !.height = h]

\* The children user code gives the root: fixed, oversized, percentage,
\* flexible, unsized, one with a negative width, a zero maximum and a
\* minimum above the maximum, and a row with a child of its own whose
\* padding exceeds its box.
KidMenu ==
    {Node(Sized(Px(100), Px(100)), << >>),
     Node(Sized(Px(200), Px(250)), << >>),
     Node(Sized(Pct(50), Pct(50)), << >>),
     Node([NoStyle EXCEPT !.flex = Px(1)], << >>),
     Node(NoStyle, << >>),
     Node([Sized(Px(-50), Px(100)) EXCEPT !.maxWidth = Px(0),
                                          !.minHeight = Px(150),
                                          !.maxHeight = Px(120)], << >>),
     Node([Sized(Px(120), Px(80)) EXCEPT !.padding = Px(70),
                                         !.paddingTop = Px(10),
                                         !.flexDirection = "row",
                                         !.justifyContent = "flex-end"],
          <<Node(Sized(Px(20), Pct(50)), << >>)>>)}

RootStyles ==
    {[NoStyle EXCEPT !.flexDirection = d, !.justifyContent = j,
                     !.alignItems = a, !.padding = p] :
        d \in {Undefined, "row"},
        j \in {Undefined, "center", "flex-end", "space-between",
               "space-around"},
        a \in {Undefined, "center", "flex-end", "stretch"},
        p \in {Absent, Px(20)}}

\* The arguments of root.calculateLayout(width, height): none, or a canvas
LayoutArgs == {<<Absent, Absent>>, <<Px(300), Px(200)>>}

LInit ==
    /\ WorkerInit
    /\ \E s \in RootStyles, n \in 1 .. MaxKids :
           \E k \in [1 .. n -> KidMenu] : layoutRoot = Node(s, k)
    /\ layoutArgs = NoArgs
    /\ layoutPrev = NoPrev
    /\ hitRoot = Serializable(1, Box(0, 0, 0, 0), FALSE, << >>)
    /\ hitPoint = Point(0, 0)
    /\ hitResult = NoHit
    /\ virtualElement = NullValue
    /\ built = NoBuilt

\* root.calculateLayout(width, height)
LCalculateLayout(width, height) ==
    /\ layoutPrev' = [root |-> layoutRoot, args |-> layoutArgs]
    /\ layoutArgs' = <<width, height>>
    /\ layoutRoot' = SimpleCalculateLayout(layoutRoot, width, height)
    /\ UNCHANGED <<hostVars, hitVars, builderVars>>

LNext == \E a \in LayoutArgs : LCalculateLayout(a[1], a[2])

LayoutSpec == LInit /\ [][LNext]_vars

(***************************************************************************)
(* The hit-tester on its own: a serialized tree with its boxes and a tap   *)
(* point are given, and hitTest(tree, point) is called.                    *)
(***************************************************************************)
\* Children of the root: one of three boxes (the first two overlap), with
\* or without a press handler, with or without a pressable child inside.
HitKidShapes ==
    {[box |-> b, hasOnPress |-> h, inner |-> g] :
        b \in {Box(0, 0, 100, 100), Box(50, 50, 100, 100),
               Box(200, 200, 50, 50)},
        h \in BOOLEAN, g \in BOOLEAN}

\* Identifiers in creation order: a node's children before the node
HitKid(shape, i) ==
    Serializable(2 * i, shape.box, shape.hasOnPress,
        IF shape.inner
        THEN <<Serializable(2 * i - 1, Box(10, 10, 30, 30), TRUE, << >>)>>
        ELSE << >>)

HitTreesOf(n) ==
    {Serializable(2 * n + 1, b, h, [i \in 1 .. n |-> HitKid(k[i], i)]) :
        b \in {Box(0, 0, 300, 300), Box(20, 20, 300, 300)},
        h \in BOOLEAN,
        k \in [1 .. n -> HitKidShapes]}

HitTrees == UNION {HitTreesOf(n) : n \in 1 .. MaxKids}

HitPoints ==
    {Point(-10, -10), Point(25, 25), Point(75, 75), Point(120, 120),
     Point(225, 225), Point(290, 290), Point(500, 500)}

HInit ==
    /\ WorkerInit
    /\ layoutRoot = Node(NoStyle, << >>)
    /\ layoutArgs = NoArgs
    /\ layoutPrev = NoPrev
    /\ hitRoot \in HitTrees
    /\ hitPoint \in HitPoints
    /\ hitResult = NoHit
    /\ virtualElement = NullValue
    /\ built = NoBuilt

\* hitTest(currentScene, {x, y})
HHitTest ==
    /\ ~hitResult.done
    /\ hitResult' = [done |-> TRUE, id |-> HitTest(hitRoot, hitPoint, 0, 0)]
    /\ UNCHANGED <<hostVars, layoutVars, builderVars, hitRoot, hitPoint>>

HNext == HHitTest

HitSpec == HInit /\ [][HNext]_vars

(***************************************************************************)
(* The tree builders on their own: a virtual element, as the root          *)
(* component returned it, is handed to buildRenderTree.                    *)
(***************************************************************************)
\* The children lists of a Text element in user code: none, a literal, a
\* literal followed by an interpolated value, a zero, two literals around a
\* null
TextChildren ==
    {<< >>,
     <<Str(<<"Hi">>)>>,
     <<Str(<<"Count: ">>), Number(15)>>,
     <<Number(0)>>,
     <<Str(<<"a">>), NullValue, Str(<<"b">>)>>}

Button == CreateElement(Kind("TouchableOpacity"), TRUE, << >>)

\* Elements without element children of their own, or function components
LeafElements ==
    {CreateElement(Kind("Text"), FALSE, c) : c \in TextChildren}
    \cup {CreateElement(Kind("Image"), FALSE, << >>),
          CreateElement(Kind("View"), FALSE, << >>),
          Button,
          CreateElement(Component(CreateElement(Kind("Text"), FALSE,
                                                <<Str(<<"Hi">>)>>)),
                        FALSE, << >>),
          CreateElement(Component(CreateElement(Kind("View"), FALSE,
                                                <<Button>>)),
                        FALSE, << >>),
          CreateElement(Component(NullValue), FALSE, << >>)}

BInit ==
    /\ WorkerInit
    /\ layoutRoot = Node(NoStyle, << >>)
    /\ layoutArgs = NoArgs
    /\ layoutPrev = NoPrev
    /\ hitRoot = Serializable(1, Box(0, 0, 0, 0), FALSE, << >>)
    /\ hitPoint = Point(0, 0)
    /\ hitResult = NoHit
    /\ \/ virtualElement \in LeafElements
       \/ \E t \in {"View", "TouchableOpacity"}, n \in 1 .. MaxKids :
             \E k \in [1 .. n -> LeafElements] :
                virtualElement = CreateElement(Kind(t), t = "TouchableOpacity", k)
    /\ built = NoBuilt

\* The worker's executeCode from resetNodeIdCounter() to buildRenderTree
BBuildSimpleTree ==
    LET b == BuildSimpleTree(virtualElement, ResetNodeIdCounter)
    IN /\ built' = [by |-> "worker", node |-> b.node]
       /\ nodeIdCounter' = b.counter
       /\ UNCHANGED <<engineVars, initialized, currentRenderTree, eventHandlers,
                      yogaInstance, modulesReady, pendingInits, previewVars,
                      out, lastOp, acq, everStored, lastSet, delivered, hist,
                      layoutVars, hitVars, virtualElement>>

\* code-executor's buildRenderTree(element)
BBuildRenderNode ==
    LET b == BuildRenderNode(virtualElement)
    IN /\ built' = [by |-> "main", node |-> b.node]
       /\ stateIndex' = IF b.reset THEN ResetState ELSE stateIndex
       /\ UNCHANGED <<stateValues, stateUpdateCallback, workerVars, previewVars,
                      out, lastOp, acq, everStored, lastSet, delivered, hist,
                      layoutVars, hitVars, virtualElement>>

BNext == BBuildSimpleTree \/ BBuildRenderNode

BuildSpec == BInit /\ [][BNext]_vars

(***************************************************************************)
(* Properties                                                              *)
(***************************************************************************)
Responses(msgs) ==
    CountType(msgs, "RENDER_TREE") + CountType(msgs, "EXECUTION_ERROR")

\* C1: state cell round-trip.  An acquisition at an ordinal where the last
\* setter application was made with a literal v1 returns v1, whichever way
\* the pass was started and whatever initial value it passes.
C1_RoundTrip ==
    \A k \in 1 .. Len(acq) :
        (acq[k].setter.applied /\ acq[k].setter.kind = "literal")
            => acq[k].returned = acq[k].setter.value

\* C2: a setter applied by the press handler of a DISPATCH_EVENT makes the
\* host run a new pass and post a RENDER_TREE by itself.  The host keeps no
\* timer and no queue of its own, so whatever it does for the dispatch has
\* been done when the handler of the message returns.
C2_SetterReexecutes ==
    (lastOp.op = "dispatch" /\ lastOp.ran)
        => CountType(out, "RENDER_TREE") >= 1

\* C3: the ordinal counter is zero when the root component is invoked, in
\* every pass, so that the k-th useState call of the root binds to k-1.
C3_OrdinalZeroAtRoot ==
    lastOp.rootIndex # -1
        => /\ lastOp.rootIndex = 0
           /\ \A k \in 1 .. Len(lastOp.prog.hooks) :
                  k <= Len(acq) => acq[k].ordinal = k - 1

\* C4: once a value has been stored at an ordinal, every later acquisition
\* there returns the stored value, whatever the initial argument, and leaves
\* the stored value as it was.
C4_StoredValueReused ==
    \A k \in 1 .. Len(acq) :
        acq[k].hadStored
            => /\ acq[k].returned = acq[k].before
               /\ acq[k].after = acq[k].before

\* C5: every EXECUTE_CODE handled posts exactly one response, a RENDER_TREE
\* or an EXECUTION_ERROR.
C5_OneResponsePerExecute ==
    lastOp.op = "execute" => Responses(out) = 1

\* C6: execution failures are not fatal.  Once the host has announced
\* WORKER_READY, an EXECUTE_CODE with valid source posts RENDER_TREE and no
\* EXECUTION_ERROR, whatever executions failed before it.
C6_FailuresNotFatal ==
    (lastOp.op = "execute" /\ lastOp.readyAtStart /\ IsValid(lastOp.prog))
        => /\ CountType(out, "RENDER_TREE") = 1
           /\ CountType(out, "EXECUTION_ERROR") = 0

\* C6 witness: a valid source delivered its tree after an execution in which
\* user code threw and one that failed earlier in the pipeline.
C6_Witness ==
    /\ lastOp.op = "execute"
    /\ lastOp.readyAtStart
    /\ IsValid(lastOp.prog)
    /\ "user" \in hist.failed
    /\ CountType(out, "RENDER_TREE") = 1
    /\ hist.execs = MaxExecs

\* C7: no EXECUTE_CODE is run through the pipeline before the readiness
\* notification WORKER_READY has been posted.
C7_PassOnlyWhenReady ==
    lastOp.op = "execute" => lastOp.readyAtStart

\* C8: an initialization failure is fatal and surfaced once: one fatal
\* diagnostic, and no WORKER_READY ever after it.
C8_InitFailureFatal ==
    hist.initFailures > 0
        => /\ hist.initFailures = 1
           /\ ~hist.readyAfterFailure

\* C9: a DISPATCH_EVENT naming an identifier of a superseded tree invokes no
\* handler and posts only the 'No handler found' log.
C9_StaleDispatchRunsNothing ==
    (lastOp.op = "dispatch" /\ lastOp.stale)
        => /\ ~lastOp.ran
           /\ out = <<Log("info", "Dispatching press"),
                      Log("warn", "No handler found")>>

\* C10: node identifiers are unique over the lifetime of the host and
\* assigned increasingly, across delivered trees too.
C10_IdsUniqueMonotone ==
    \A g1, g2 \in 1 .. Len(delivered) :
        \A j1 \in 1 .. Len(delivered[g1].nodes), j2 \in 1 .. Len(delivered[g2].nodes) :
            (g1 < g2 \/ (g1 = g2 /\ j1 < j2))
                => delivered[g1].nodes[j1].id < delivered[g2].nodes[j2].id

\* C11: after a successful execution the keys of the press-handler table are
\* exactly the identifiers flagged hasOnPress in the delivered tree, each key
\* maps to the press callback of its node, and the delivered nodes carry the
\* flag only.
C11_HandlerTableMatchesTree ==
    (lastOp.op = "execute" /\ CountType(out, "RENDER_TREE") = 1)
        => LET t == delivered[Len(delivered)]
               flagged == {j \in 1 .. Len(t.nodes) : t.nodes[j].hasOnPress}
           IN /\ Len(t.nodes) = Len(currentRenderTree.nodes)
              /\ DOMAIN eventHandlers = {t.nodes[j].id : j \in flagged}
              /\ \A j \in flagged :
                    /\ currentRenderTree.nodes[j].id = t.nodes[j].id
                    /\ eventHandlers[t.nodes[j].id]
                           = currentRenderTree.nodes[j].onPress
                    /\ currentRenderTree.nodes[j].onPress.kind # "none"
              /\ \A j \in 1 .. Len(t.nodes) :
                    DOMAIN t.nodes[j] = {"id", "hasOnPress"}

\* C11 witness: a tree with a pressable child and a root without handler
\* has just been delivered.
C11_Witness ==
    /\ lastOp.op = "execute"
    /\ CountType(out, "RENDER_TREE") = 1
    /\ \E j \in 1 .. Len(delivered[Len(delivered)].nodes) :
           delivered[Len(delivered)].nodes[j].hasOnPress
    /\ \E j \in 1 .. Len(delivered[Len(delivered)].nodes) :
           ~delivered[Len(delivered)].nodes[j].hasOnPress
    /\ DOMAIN eventHandlers # {}

\* The step is the handling of an EXECUTE_CODE whose source fails in the
\* transform step.
TransformFailureStep ==
    /\ hist'.execs = hist.execs + 1
    /\ lastOp'.op = "execute"
    /\ lastOp'.prog.transform = "error"

\* C12: an EXECUTE_CODE that fails in the transform step posts one
\* EXECUTION_ERROR and no RENDER_TREE, and leaves the tree that was delivered
\* last (and the host's current tree) as it was.
C12_TransformFailureKeepsTree ==
    [][TransformFailureStep
          => /\ CountType(out', "EXECUTION_ERROR") = 1
             /\ CountType(out', "RENDER_TREE") = 0
             /\ delivered' = delivered
             /\ currentRenderTree' = currentRenderTree]_vars

\* C12 witness: a transform failure has been handled while a delivered tree
\* is on screen.
C12_Witness ==
    /\ lastOp.op = "execute"
    /\ lastOp.prog.transform = "error"
    /\ Len(delivered) >= 1
    /\ currentRenderTree # NoTree
    /\ CountType(out, "EXECUTION_ERROR") = 1

\* Every node of a tree, and the nodes that have children
RECURSIVE Nodes(_)
Nodes(node) ==
    {node} \cup UNION {Nodes(node.children[i]) : i \in 1 .. Len(node.children)}
Containers(tree) == {n \in Nodes(tree) : Len(n.children) > 0}

\* The content box and the main axis of a laid-out container, as the spec
\* words them: the box less its padding; row runs along the width
IsRow(n) == n.style.flexDirection = "row"
ContentWidth(n) ==
    Minus(Minus(n.layout.width, Padding(n.style).left), Padding(n.style).right)
ContentHeight(n) ==
    Minus(Minus(n.layout.height, Padding(n.style).top), Padding(n.style).bottom)
ContentMain(n) == IF IsRow(n) THEN ContentWidth(n) ELSE ContentHeight(n)
LeadingEdge(n) == IF IsRow(n) THEN Padding(n.style).left ELSE Padding(n.style).top
MainDecl(n, c) == IF IsRow(n) THEN c.style.width ELSE c.style.height
MainStart(n, c) == IF IsRow(n) THEN c.layout.left ELSE c.layout.top
MainExtent(n, c) == IF IsRow(n) THEN c.layout.width ELSE c.layout.height
Unclamped(c) ==
    /\ c.style.minWidth = Absent /\ c.style.maxWidth = Absent
    /\ c.style.minHeight = Absent /\ c.style.maxHeight = Absent
Declares(s) == s.kind = "number"

\* A declared size of p% of extent, or the literal
Resolved(decl, extent) ==
    IF decl.kind = "percent" THEN Over(Times(decl.v, extent), Num(100))
    ELSE decl.v

RECURSIVE FixedSum(_, _, _)
FixedSum(n, i, extent) ==
    IF i < 1 THEN Num(0)
    ELSE Plus(Resolved(MainDecl(n, n.children[i]), extent),
              FixedSum(n, i - 1, extent))

\* All children of n have a literal or percentage main size and no min/max
AllFixed(n) ==
    \A i \in 1 .. Len(n.children) :
        /\ MainDecl(n, n.children[i]).kind \in {"number", "percent"}
        /\ Unclamped(n.children[i])

Laid == layoutRoot.layout.defined

\* C13: every box produced by layout has width >= 0 and height >= 0, and a
\* node that declares minWidth, maxWidth, minHeight or maxHeight has its
\* width or height within the declared bound.
C13_BoxesNonNegativeAndClamped ==
    Laid =>
        \A n \in Nodes(layoutRoot) :
            /\ AtMost(Num(0), n.layout.width)
            /\ AtMost(Num(0), n.layout.height)
            /\ Declares(n.style.minWidth)
                   => AtMost(n.style.minWidth.v, n.layout.width)
            /\ Declares(n.style.maxWidth)
                   => AtMost(n.layout.width, n.style.maxWidth.v)
            /\ Declares(n.style.minHeight)
                   => AtMost(n.style.minHeight.v, n.layout.height)
            /\ Declares(n.style.maxHeight)
                   => AtMost(n.layout.height, n.style.maxHeight.v)

\* C14: laying out an already laid-out tree again with the same container
\* width and height gives every node the box it had.
C14_LayoutIdempotent ==
    (layoutPrev.root.layout.defined /\ layoutPrev.args = layoutArgs)
        => layoutRoot = layoutPrev.root

\* C14 witness: a tree with a nested container and a child away from the
\* origin has been laid out twice with the same canvas.
C14_Witness ==
    /\ layoutPrev.root.layout.defined
    /\ layoutPrev.args = layoutArgs
    /\ layoutRoot = layoutPrev.root
    /\ \E n \in Nodes(layoutRoot) :
           n.layout.left.n # 0 /\ n.layout.top.n # 0
    /\ \E i \in 1 .. Len(layoutRoot.children) :
           Len(layoutRoot.children[i].children) > 0

\* C15: under space-between, N >= 2 children of fixed main size (literal or
\* percentage) with total S in a content main axis of size M: the first
\* child starts at the leading edge and the gap from the end of each child
\* to the start of the next is (M - S) / (N - 1).
C15_SpaceBetweenGaps ==
    Laid =>
        \A n \in Containers(layoutRoot) :
            (n.style.justifyContent = "space-between"
                 /\ Len(n.children) >= 2 /\ AllFixed(n))
            => LET M == ContentMain(n)
                   S == FixedSum(n, Len(n.children), M)
                   gap == Over(Minus(M, S), Num(Len(n.children) - 1))
               IN /\ MainStart(n, n.children[1]) = LeadingEdge(n)
                  /\ \A i \in 1 .. (Len(n.children) - 1) :
                        Minus(MainStart(n, n.children[i + 1]),
                              Plus(MainStart(n, n.children[i]),
                                   MainExtent(n, n.children[i]))) = gap

\* C16: when the fixed main sizes of the children add up to more than the
\* container's main size, the starting offset and the spacing that
\* layoutChildren computes are zero for every justification mode.
C16_OverflowLeftoverIsZero ==
    Laid =>
        \A n \in Containers(layoutRoot) :
            LET t == Totals(n.children, IsRow(n), ContentWidth(n),
                            ContentHeight(n))
                d == Distribution(ContentMain(n), t,
                                  OrDefault(n.style.justifyContent,
                                            "flex-start"),
                                  Len(n.children))
            IN Less(ContentMain(n), t.fixed)
                   => /\ d.startOffset = Num(0)
                      /\ d.spacing = Num(0)
                      /\ MainStart(n, n.children[1]) = LeadingEdge(n)

\* C17: every node has left >= 0 and top >= 0 relative to its parent (the
\* layout code has no absolute positioning).
C17_OffsetsNonNegative ==
    Laid =>
        \A n \in Nodes(layoutRoot) :
            AtMost(Num(0), n.layout.left) /\ AtMost(Num(0), n.layout.top)

\* C18: a child whose width (height) is p% gets a box of width (height)
\* p * W / 100, W being the width (height) of its parent's content box, and
\* along the main axis the next child starts that far on, plus the spacing.
C18_PercentOfContainingBox ==
    Laid =>
        \A n \in Containers(layoutRoot) :
            \A i \in 1 .. Len(n.children) :
                LET c == n.children[i]
                IN Unclamped(c) =>
                     /\ c.style.width.kind = "percent"
                            => c.layout.width
                                 = Resolved(c.style.width, ContentWidth(n))
                     /\ c.style.height.kind = "percent"
                            => c.layout.height
                                 = Resolved(c.style.height, ContentHeight(n))

\* The boxes of a serialized tree in canvas coordinates: every node's box
\* moved by the offsets of its ancestors
RECURSIVE Accumulated(_, _, _)
Accumulated(node, offsetX, offsetY) ==
    LET x == offsetX + node.layout.left
        y == offsetY + node.layout.top
    IN {[id |-> node.id, hasOnPress |-> node.hasOnPress, x |-> x, y |-> y,
         width |-> node.layout.width, height |-> node.layout.height]}
       \cup UNION {Accumulated(node.children[i], x, y) :
                      i \in 1 .. Len(node.children)}

\* The point lies in the box, edges included
Covers(b, point) ==
    /\ b.x <= point.x /\ point.x <= b.x + b.width
    /\ b.y <= point.y /\ point.y <= b.y + b.height

\* C19: hit-testing at a point outside the accumulated box of every node
\* returns null.
C19_OutsideEveryBoxIsNull ==
    (hitResult.done
        /\ \A b \in Accumulated(hitRoot, 0, 0) : ~Covers(b, hitPoint))
    => hitResult.id = NullId

\* C19 witness: a tree of pressable nodes has been tapped beyond the right
\* and bottom edges of all of them.
C19_Witness ==
    /\ hitResult.done
    /\ hitResult.id = NullId
    /\ \A b \in Accumulated(hitRoot, 0, 0) :
           b.hasOnPress /\ hitPoint.x > b.x + b.width
                        /\ hitPoint.y > b.y + b.height

\* The canvas box of the i-th child of the root, and the pressable nodes of
\* that child's subtree under the point
KidBoxes(i) ==
    Accumulated(hitRoot.children[i], hitRoot.layout.left, hitRoot.layout.top)
KidCovers(i) ==
    \E b \in KidBoxes(i) : b.id = hitRoot.children[i].id /\ Covers(b, hitPoint)
PressableUnder(i) ==
    {b.id : b \in {k \in KidBoxes(i) : k.hasOnPress /\ Covers(k, hitPoint)}}

\* C20: when the point lies inside two overlapping children of a node, the
\* result is the later child or a pressable node of its subtree, or else
\* the nearest pressable ancestor (null when there is none); never the
\* earlier child or one of its descendants.
C20_TopmostSiblingWins ==
    (hitResult.done
        /\ Covers([x |-> hitRoot.layout.left, y |-> hitRoot.layout.top,
                   width |-> hitRoot.layout.width,
                   height |-> hitRoot.layout.height], hitPoint))
    => \A i, j \in 1 .. Len(hitRoot.children) :
          (i < j /\ KidCovers(i) /\ KidCovers(j)
               /\ \A k \in (j + 1) .. Len(hitRoot.children) : ~KidCovers(k))
          => /\ hitResult.id \in
                   (IF PressableUnder(j) # {} THEN PressableUnder(j)
                    ELSE IF hitRoot.hasOnPress THEN {hitRoot.id}
                    ELSE {NullId})
             /\ hitResult.id \notin {b.id : b \in KidBoxes(i)}

\* The pressable nodes under the point whose ancestors all contain the point
\* and none of whose descendants is such a node
RECURSIVE Deepest(_, _, _)
Deepest(node, offsetX, offsetY) ==
    LET x == offsetX + node.layout.left
        y == offsetY + node.layout.top
        below == UNION {Deepest(node.children[i], x, y) :
                           i \in 1 .. Len(node.children)}
    IN IF ~Covers([x |-> x, y |-> y, width |-> node.layout.width,
                   height |-> node.layout.height], hitPoint)
       THEN {}
       ELSE IF below # {} THEN below
            ELSE IF node.hasOnPress THEN {node.id} ELSE {}

\* C21: a non-null hit is a pressable node whose accumulated box and whose
\* ancestors' accumulated boxes contain the point, and which has no
\* pressable descendant of which the same is true.
C21_HitIsDeepestPressable ==
    (hitResult.done /\ hitResult.id # NullId)
        => hitResult.id \in Deepest(hitRoot, 0, 0)

\* C21 witness: the tap lands on a pressable grandchild inside a pressable
\* child of a pressable root, and the grandchild is returned.
C21_Witness ==
    /\ hitResult.done
    /\ hitRoot.hasOnPress
    /\ \E i \in 1 .. Len(hitRoot.children) :
          /\ hitRoot.children[i].hasOnPress
          /\ Len(hitRoot.children[i].children) = 1
          /\ hitResult.id = hitRoot.children[i].children[1].id

\* The step is the handling of an EXECUTE_CODE whose source, transformed
\* without error, imports a module other than the two virtual ones.
UnknownModuleStep ==
    /\ hist'.execs = hist.execs + 1
    /\ lastOp'.op = "execute"
    /\ lastOp'.prog.transform = "ok"
    /\ Imports(lastOp'.prog) \ {"react", "react-native"} # {}

\* C24: require resolves 'react' and 'react-native' and throws for every
\* other name; an EXECUTE_CODE that requires another module posts one
\* EXECUTION_ERROR and no RENDER_TREE and leaves the host as ready as it was.
C24_UnknownModuleFails ==
    [][/\ \A m \in ModuleNames :
             (Require(m) = ModuleNotFound) <=> (m \notin {"react", "react-native"})
       /\ UnknownModuleStep
             => /\ CountType(out', "EXECUTION_ERROR") = 1
                /\ CountType(out', "RENDER_TREE") = 0
                /\ delivered' = delivered
                /\ initialized' = initialized
                /\ modulesReady' = modulesReady]_vars

\* C24 witness: a ready host with its virtual modules set up has handled an
\* EXECUTE_CODE that requires an unknown module.
C24_Witness ==
    /\ lastOp.op = "execute"
    /\ lastOp.prog.transform = "ok"
    /\ Imports(lastOp.prog) \ {"react", "react-native"} # {}
    /\ lastOp.modules
    /\ initialized
    /\ CountType(out, "EXECUTION_ERROR") = 1

\* C29: at most one WORKER_READY is posted in the lifetime of the host,
\* whatever the order of INIT_WORKER messages and initYoga completions.
C29_ReadyAtMostOnce == hist.ready <= 1

\* C30: between messages, every identifier flagged hasOnPress in the tree
\* delivered last is a key of the press-handler table.
C30_TableServesDeliveredTree ==
    Len(delivered) >= 1
        => \A j \in 1 .. Len(delivered[Len(delivered)].nodes) :
               delivered[Len(delivered)].nodes[j].hasOnPress
                   => delivered[Len(delivered)].nodes[j].id
                          \in DOMAIN eventHandlers

\* The flex weight of a child that has no fixed main size, else 0
Weight(n, c) ==
    IF MainDecl(n, c).kind \notin {"number", "percent"} /\ Truthy(c.style.flex)
    THEN c.style.flex.v ELSE Num(0)

RECURSIVE FlexSum(_, _)
FlexSum(n, i) ==
    IF i < 1 THEN Num(0)
    ELSE Plus(Weight(n, n.children[i]), FlexSum(n, i - 1))

RECURSIVE ExtentSum(_, _)
ExtentSum(n, i) ==
    IF i < 1 THEN Num(0)
    ELSE Plus(MainExtent(n, n.children[i]), ExtentSum(n, i - 1))

\* C25: with F the fixed sum and T the flex total of the children of a
\* container of content main size M, a flexible child of weight w has main
\* size w * max(0, M - F) / T; and when T > 0, F <= M and every child is
\* fixed or flexible, the children's main sizes add up to M and every child
\* lies within the content box along the main axis.
C25_FlexFillsContentBox ==
    Laid =>
        \A n \in Containers(layoutRoot) :
            LET N == Len(n.children)
                M == ContentMain(n)
                F == FixedSum(n, N, M)
                T == FlexSum(n, N)
            IN (\A i \in 1 .. N : Unclamped(n.children[i]))
               => /\ \A i \in 1 .. N :
                        Less(Num(0), Weight(n, n.children[i]))
                        => MainExtent(n, n.children[i])
                             = Over(Times(Weight(n, n.children[i]),
                                          MathMax(Num(0), Minus(M, F))), T)
                  /\ (/\ Less(Num(0), T)
                      /\ AtMost(F, M)
                      /\ \A i \in 1 .. N :
                            \/ MainDecl(n, n.children[i]).kind
                                   \in {"number", "percent"}
                            \/ Less(Num(0), Weight(n, n.children[i])))
                     => /\ ExtentSum(n, N) = M
                        /\ \A i \in 1 .. N :
                              /\ AtMost(LeadingEdge(n),
                                        MainStart(n, n.children[i]))
                              /\ AtMost(Plus(MainStart(n, n.children[i]),
                                             MainExtent(n, n.children[i])),
                                        Plus(LeadingEdge(n), M))

\* What layoutChildren is given for a laid-out container, and the cursor
\* before its i-th child
SlotContext(n) ==
    LET d == Distribution(ContentMain(n),
                          Totals(n.children, IsRow(n), ContentWidth(n),
                                 ContentHeight(n)),
                          OrDefault(n.style.justifyContent, "flex-start"),
                          Len(n.children))
    IN [isRow |-> IsRow(n), containerWidth |-> ContentWidth(n),
        containerHeight |-> ContentHeight(n),
        crossSize |-> IF IsRow(n) THEN ContentHeight(n) ELSE ContentWidth(n),
        offsetX |-> Padding(n.style).left, offsetY |-> Padding(n.style).top,
        alignItems |-> OrDefault(n.style.alignItems, "flex-start"),
        flexUnit |-> d.flexUnit, spacing |-> d.spacing,
        startOffset |-> d.startOffset]

\* The main-axis position layoutChildren's cursor has before each child
RECURSIVE Cursors(_, _, _)
Cursors(children, c, currentPos) ==
    IF children = << >> THEN << >>
    ELSE <<currentPos>>
         \o Cursors(Tail(children), c,
                    Plus(currentPos,
                         Plus(ChildSlot(Head(children).style, c).childMainSize,
                              c.spacing)))

\* C26: the first child starts at the leading padding plus the start offset
\* of the justification mode, every next child at the previous child's
\* start plus the previous child's main size plus the spacing; a child's
\* own layout leaves it at the position its parent computed, on both axes.
C26_ChildrenPlacedInOrder ==
    Laid =>
        \A n \in Containers(layoutRoot) :
            LET c == SlotContext(n)
                at == Cursors(n.children, c,
                              Plus(LeadingEdge(n), c.startOffset))
            IN \A i \in 1 .. Len(n.children) :
                  /\ MainStart(n, n.children[i]) = at[i]
                  /\ (IF IsRow(n) THEN n.children[i].layout.top
                      ELSE n.children[i].layout.left)
                         = ChildSlot(n.children[i].style, c).crossPos

\* C26 witness: a laid-out root with padding and spacing between two
\* children, the second of which has a child of its own.
C26_Witness ==
    /\ Laid
    /\ Len(layoutRoot.children) = 2
    /\ Len(layoutRoot.children[2].children) = 1
    /\ LeadingEdge(layoutRoot) # Num(0)
    /\ Less(Num(0), SlotContext(layoutRoot).spacing)
    /\ Less(Num(0), SlotContext(layoutRoot).startOffset)
    /\ Less(MainStart(layoutRoot, layoutRoot.children[1]),
            MainStart(layoutRoot, layoutRoot.children[2]))

\* For each acquisition of a complete pass over p, the component instance
\* that made it: 0 for the root component, k for the k-th function-type
\* child
RECURSIVE NestedOwners(_, _)
NestedOwners(nested, k) ==
    IF nested = << >> THEN << >>
    ELSE [j \in 1 .. Len(Head(nested)) |-> k] \o NestedOwners(Tail(nested), k + 1)
Owners(p) == [j \in 1 .. Len(p.hooks) |-> 0] \o NestedOwners(p.nested, 1)

\* C28: when one pass evaluates two function components that each acquire
\* a state cell, acquisitions of different components bind to different
\* ordinals.
C28_ComponentsDoNotAlias ==
    (lastOp.op \in {"xexecute", "xclick", "execute"}
        /\ Len(acq) = Len(Owners(lastOp.prog)))
    => \A i, j \in 1 .. Len(acq) :
           Owners(lastOp.prog)[i] # Owners(lastOp.prog)[j]
               => acq[i].ordinal # acq[j].ordinal

\* The nodes of a built tree
RECURSIVE BuiltNodes(_)
BuiltNodes(node) ==
    IF node.kind # "node" THEN {}
    ELSE {node} \cup UNION {BuiltNodes(node.children[i]) :
                               i \in DOMAIN node.children}

\* The children a virtual element was created with, in order
ChildrenOf(el) == ChildArray(el.props.children)
OnlyPrimitives(el) ==
    \A i \in DOMAIN ChildrenOf(el) :
        ChildrenOf(el)[i].kind \in {"string", "number"}

\* The built tree with the identifiers left out
RECURSIVE Shape(_)
Shape(node) ==
    IF node.kind # "node" THEN node
    ELSE [node EXCEPT !.id = 0,
                      !.children = [i \in DOMAIN node.children |->
                                       Shape(node.children[i])]]

\* What the builder that ran makes of an element
BuiltBy(by, el) ==
    IF by = "worker" THEN Shape(BuildSimpleTree(el, ResetNodeIdCounter).node)
    ELSE Shape(BuildRenderNode(el).node)

\* The characters a node shows; a node without text shows none
TextOf(node) == IF node.text.kind = "string" THEN node.text.chars ELSE << >>

\* C22: no Text node of a built tree has children: a Text element with any
\* number of string or number children (none, one, a literal followed by an
\* interpolated value) builds to a Text node with an empty child list whose
\* text is the concatenation of the children in order.
C22_TextNodesHaveNoChildren ==
    built.by # "none" =>
        /\ \A n \in BuiltNodes(built.node) :
               n.type = "text" => n.children = << >>
        /\ (TypeName(virtualElement.type) = "Text"
                /\ OnlyPrimitives(virtualElement)) =>
               /\ built.node.kind = "node"
               /\ built.node.type = "text"
               /\ built.node.children = << >>
               /\ TextOf(built.node) = JoinText(ChildrenOf(virtualElement))

\* The element kinds buildRenderTree is specified to know
KnownKind(el) ==
    TypeName(el.type) \in {"View", "TouchableOpacity", "Text", "function"}

\* C23: an element whose kind is neither View, a pressable, Text nor a
\* function builds to null: it adds no node to its parent's child list, and
\* the rest of the tree is still built.
C23_UnknownKindBuildsNull ==
    built.by # "none" =>
        /\ ~KnownKind(virtualElement) => built.node = NullNode
        /\ (TypeName(virtualElement.type) \in {"View", "TouchableOpacity"}
                /\ \E i \in DOMAIN ChildrenOf(virtualElement) :
                       ~KnownKind(ChildrenOf(virtualElement)[i])) =>
               /\ built.node.kind = "node"
               /\ Shape(built.node) =
                      BuiltBy(built.by,
                              CreateElement(virtualElement.type,
                                            virtualElement.props.onPress,
                                            SelectSeq(ChildrenOf(virtualElement),
                                                      KnownKind)))

\* C27: a function-type element, at the root or nested, is evaluated by the
\* builder: the node built for it is the node built from what the function
\* returns, and the function itself never becomes a node.
C27_FunctionElementsAreEvaluated ==
    built.by # "none" =>
        /\ virtualElement.type.kind = "function" =>
               Shape(built.node) = BuiltBy(built.by, virtualElement.type.returns)
        /\ (TypeName(virtualElement.type) \in {"View", "TouchableOpacity"}
                /\ \E i \in DOMAIN ChildrenOf(virtualElement) :
                       ChildrenOf(virtualElement)[i].type.kind = "function") =>
               Shape(built.node) =
                   BuiltBy(built.by,
                           CreateElement(virtualElement.type,
                                         virtualElement.props.onPress,
                                         [i \in DOMAIN ChildrenOf(virtualElement) |->
                                             IF ChildrenOf(virtualElement)[i].type.kind = "function"
                                             THEN ChildrenOf(virtualElement)[i].type.returns
                                             ELSE ChildrenOf(virtualElement)[i]]))

====
